---------------------------- MODULE Spec2Model ----------------------------
(***************************************************************************)
(* A model of command-validator.py, the PreToolUse hook that screens the   *)
(* command of a Bash tool call against an ordered table of regular         *)
(* expressions.  One run of the process is one behaviour: the input        *)
(* document, the environment and the current directory are chosen in Init, *)
(* and the actions are the steps of main().                                *)
(*                                                                         *)
(* Text is modelled as a sequence of one-character strings, so that the    *)
(* word boundaries, the character classes and the substring search of the  *)
(* patterns are computed rather than assumed.                              *)
(***************************************************************************)
EXTENDS Integers, Sequences, FiniteSets, TLC

VARIABLES
    stdin,        \* the document on standard input
    environ,      \* os.environ: SHELL_ALIASES and CLAUDE_PROJECT_DIR
    getcwd,       \* the process's current directory, resolved
    pc,           \* the position of main()
    command,      \* main's local `command`
    i,            \* number of rules validate_command has consulted
    result,       \* what validate_command returned
    stdout,       \* the lines printed, each a JSON document
    stderr,       \* the uncaught exception's name, "" when none
    exit_status   \* -1 while running, then the process's exit status

vars == <<stdin, environ, getcwd, pc, command, i, result, stdout, stderr, exit_status>>

----------------------------------------------------------------------------
(* Bounds of the model.                                                    *)

\* commands are concatenations of at most MaxAtoms atoms
MaxAtoms == 3

\* paths have at most MaxDepth components
MaxDepth == 2

----------------------------------------------------------------------------
(* Text.                                                                   *)

RECURSIVE Cat(_)
\* the concatenation of a sequence of texts
Cat(ss) == IF ss = <<>> THEN <<>> ELSE Head(ss) \o Cat(Tail(ss))

s_grep == <<"g","r","e","p">>
s_find == <<"f","i","n","d">>
s_bfs == <<"b","f","s">>
s_sudo == <<"s","u","d","o">>
s_rm == <<"r","m">>
s_alias == <<"a","l","i","a","s">>
s_ll == <<"l","l">>
s_la == <<"l","a">>
s_ls == <<"l","s">>
s_no_preserve_root ==
    <<"-","-","n","o","-","p","r","e","s","e","r","v","e","-","r","o","o","t">>
s_recursive == <<"-","-","r","e","c","u","r","s","i","v","e">>
s_force == <<"-","-","f","o","r","c","e">>
s_sp == <<" ">>
s_nl == <<"\n">>
s_dash == <<"-">>
s_slash == <<"/">>
s_r == <<"r">>
s_rf == <<"r","f">>
s_git == <<"g","i","t">>
s_push == <<"p","u","s","h">>
s_cp == <<"c","p">>
s_a == <<"a">>
s_b == <<"b">>
s_apt == <<"a","p","t">>
s_update == <<"u","p","d","a","t","e">>
s_build == <<"b","u","i","l","d">>
s_calling == <<"c","a","l","l","i","n","g">>
s_ll_la == <<"l","l",",","l","a">>

\* the characters \w matches (str patterns: alphanumerics and underscore)
WordChars ==
    {"a","b","c","d","e","f","g","h","i","j","k","l","m","n","o","p","q","r",
     "s","t","u","v","w","x","y","z","A","B","C","D","E","F","G","H","I","J",
     "K","L","M","N","O","P","Q","R","S","T","U","V","W","X","Y","Z","0","1",
     "2","3","4","5","6","7","8","9","_"}

\* the characters \s matches (the vertical tab, which has no escape here, left out)
SpaceChars == {" ", "\t", "\n", "\r", "\f"}

----------------------------------------------------------------------------
(* Python's re, for the constructs the rule table uses.  A pattern is a    *)
(* sequence of alternatives (the top-level |), an alternative a sequence   *)
(* of elements.  Offsets count the characters before the position.         *)

re_b == [op |-> "b"]
re_lit(text) == [op |-> "lit", lit |-> text]
\* (x|y|...): a group of alternatives
re_alt(alts) == [op |-> "alt", alts |-> alts]
\* c* and c+ for a class c: the characters of `set`, or all but them
re_star(neg, set) == [op |-> "rep", min |-> 0, neg |-> neg, set |-> set]
re_plus(neg, set) == [op |-> "rep", min |-> 1, neg |-> neg, set |-> set]
\* . without DOTALL: any character except a newline
re_dot_star == re_star(TRUE, {"\n"})

\* \b at offset k of s
Boundary(s, k) ==
    ((k >= 1) /\ (s[k] \in WordChars)) # ((k < Len(s)) /\ (s[k+1] \in WordChars))

\* the literal occurs in s starting at offset k
LitAt(s, k, lit) ==
    /\ k + Len(lit) <= Len(s)
    /\ \A n \in 1..Len(lit) : s[k+n] = lit[n]

InClass(c, e) == IF e.neg THEN c \notin e.set ELSE c \in e.set

RECURSIVE MatchAt(_, _, _)
\* the elements match some substring of s that starts at offset k
MatchAt(elems, s, k) ==
    IF elems = <<>> THEN TRUE
    ELSE LET e == Head(elems)
             rest == Tail(elems)
         IN CASE e.op = "b" -> Boundary(s, k) /\ MatchAt(rest, s, k)
              [] e.op = "lit" -> LitAt(s, k, e.lit) /\ MatchAt(rest, s, k + Len(e.lit))
              [] e.op = "alt" ->
                    \E n \in DOMAIN e.alts : MatchAt(e.alts[n] \o rest, s, k)
              [] e.op = "rep" ->
                    \E j \in (k + e.min)..Len(s) :
                        /\ \A n \in (k+1)..j : InClass(s[n], e)
                        /\ MatchAt(rest, s, j)

\* re.search(pattern, s) is not None
re_search(pattern, s) ==
    \E n \in DOMAIN pattern : \E k \in 0..Len(s) : MatchAt(pattern[n], s, k)

RECURSIVE split(_, _)
\* str.split(sep) for a one-character separator
split(s, sep) ==
    IF \A k \in DOMAIN s : s[k] # sep THEN <<s>>
    ELSE LET p == CHOOSE k \in DOMAIN s : s[k] = sep /\ \A n \in 1..(k-1) : s[n] # sep
         IN <<SubSeq(s, 1, p-1)>> \o split(SubSeq(s, p+1, Len(s)), sep)

----------------------------------------------------------------------------
(* Python values: a tag, then the value.  A dict keeps its items in        *)
(* insertion order, as Python's does.                                      *)

PyNone == <<"None">>
PyStr(text) == <<"str", text>>
PyBool(b) == <<"bool", b>>
PyDict(items) == <<"dict", items>>

\* bool(v)
Truthy(v) ==
    CASE v[1] = "None" -> FALSE
      [] v[1] = "str" -> v[2] # ""
      [] v[1] = "bool" -> v[2]
      [] v[1] = "dict" -> v[2] # <<>>

RECURSIVE json_dumps(_)
\* json.dumps: the JSON value of a Python value, an object's members in
\* the dict's order
json_dumps(v) ==
    CASE v[1] = "None" -> <<"null">>
      [] v[1] = "str" -> <<"string", v[2]>>
      [] v[1] = "bool" -> IF v[2] THEN <<"true">> ELSE <<"false">>
      [] v[1] = "dict" ->
            <<"object", [n \in DOMAIN v[2] |-> <<v[2][n][1], json_dumps(v[2][n][2])>>]>>

\* the reason stored whether or not one was given
decision_always_reason(d, reason) ==
    PyDict(<< <<"hookSpecificOutput",
                PyDict(<< <<"hookEventName", PyStr("PreToolUse")>>,
                          <<"permissionDecision", PyStr(d)>>,
                          <<"permissionDecisionReason", reason>> >>)>> >>)

decision(d, reason) ==
    LET output == << <<"hookEventName", PyStr("PreToolUse")>>,
                     <<"permissionDecision", PyStr(d)>> >>
    IN PyDict(<< <<"hookSpecificOutput",
                   PyDict(IF Truthy(reason)
                          THEN Append(output, <<"permissionDecisionReason", reason>>)
                          ELSE output)>> >>)

----------------------------------------------------------------------------
(* The rule table.                                                         *)

\* os.environ.get("SHELL_ALIASES", "")
_aliases == IF environ.SHELL_ALIASES.set THEN environ.SHELL_ALIASES.value ELSE <<>>

\* the names as alternatives without the \b around them
SHELL_ALIASES_without_boundaries ==
    LET names == split(_aliases, ",")
    IN [n \in DOMAIN names |-> <<re_lit(names[n])>>]

\* the alternatives (\b{a}\b), one per item of the split list.  The names
\* are interpolated as they are: the model takes names of word characters.
SHELL_ALIASES ==
    LET names == split(_aliases, ",")
    IN [n \in DOMAIN names |-> <<re_b, re_lit(names[n]), re_b>>]

grep_reason == "Use 'rg' (ripgrep) instead of 'grep' for better performance and features"
find_reason == "Use the Search or Glob tool instead of 'find'."
alias_reason == "Don't use aliases, use the command directly"

rule_grep ==
    [pattern |-> << <<re_b, re_lit(s_grep), re_b>> >>,
     decision |-> decision("deny", PyStr(grep_reason))]
rule_find ==
    [pattern |-> << <<re_b, re_alt(<< <<re_lit(s_find)>>, <<re_lit(s_bfs)>> >>), re_b>> >>,
     decision |-> decision("deny", PyStr(find_reason))]
rule_sudo ==
    [pattern |-> << <<re_b, re_lit(s_sudo), re_b>> >>,
     decision |-> decision("ask", PyNone)]
rule_no_preserve_root ==
    [pattern |-> << <<re_b, re_lit(s_rm), re_dot_star, re_lit(s_no_preserve_root)>> >>,
     decision |-> decision("deny", PyNone)]
\* the | binds loosest: \brm\s*(-[rRf]+), or --recursive, or --force
rule_rm_flags ==
    [pattern |-> << <<re_b, re_lit(s_rm), re_star(FALSE, SpaceChars), re_lit(s_dash),
                      re_plus(FALSE, {"r", "R", "f"})>>,
                    <<re_lit(s_recursive)>>,
                    <<re_lit(s_force)>> >>,
     decision |-> decision("ask", PyNone)]
rule_alias ==
    [pattern |-> << <<re_b, re_lit(s_alias), re_b>> >> \o SHELL_ALIASES,
     decision |-> decision("deny", PyStr(alias_reason))]

\* the table with the recursive/forced-deletion rule ahead of the
\* --no-preserve-root rule
VALIDATION_RULES_flags_first ==
    <<rule_grep, rule_find, rule_sudo, rule_rm_flags, rule_no_preserve_root, rule_alias>>

\* the table with the sudo rule last
VALIDATION_RULES_sudo_last ==
    <<rule_grep, rule_find, rule_no_preserve_root, rule_rm_flags, rule_alias, rule_sudo>>

VALIDATION_RULES ==
    <<rule_grep, rule_find, rule_sudo, rule_no_preserve_root, rule_rm_flags, rule_alias>>

----------------------------------------------------------------------------
(* Paths.  A path text is absolute or relative and has components; a       *)
(* resolved path is the sequence of components below the root directory.   *)
(* The file system has two symbolic links: /lnk -> /proj and               *)
(* /proj/lnk -> /sub.                                                      *)

Components == {"proj", "sub", "lnk", ".."}

readlink(p) ==
    IF p = <<"lnk">> THEN <<"proj">>
    ELSE IF p = <<"proj", "lnk">> THEN <<"sub">>
    ELSE p

RECURSIVE resolve_from(_, _)
resolve_from(base, parts) ==
    IF parts = <<>> THEN base
    ELSE LET c == Head(parts)
             next == IF c = ".."
                     THEN (IF base = <<>> THEN <<>> ELSE SubSeq(base, 1, Len(base) - 1))
                     ELSE readlink(Append(base, c))
         IN resolve_from(next, Tail(parts))

\* Path(text).resolve()
resolve(path) == resolve_from(IF path.abs THEN <<>> ELSE getcwd, path.parts)

\* the prefix test with its operands exchanged
is_relative_to_exchanged(p, other) ==
    /\ Len(p) <= Len(other)
    /\ SubSeq(other, 1, Len(p)) = p

\* PurePath.is_relative_to: `other` is a prefix of p, component by component
is_relative_to(p, other) ==
    /\ Len(other) <= Len(p)
    /\ SubSeq(p, 1, Len(other)) = other

\* Path(os.environ.get("CLAUDE_PROJECT_DIR", Path.cwd())).resolve()
project_root ==
    IF environ.CLAUDE_PROJECT_DIR.set
    THEN resolve(environ.CLAUDE_PROJECT_DIR.value)
    ELSE getcwd

----------------------------------------------------------------------------
(* The inputs of a run.                                                    *)

Atoms ==
    {s_grep, s_find, s_sudo, s_rm, s_alias, s_ll, s_la, s_sp, s_nl, s_dash, s_r,
     s_no_preserve_root, s_force}

\* every concatenation of at most MaxAtoms atoms
AtomCommands == {Cat(t) : t \in UNION {[1..n -> Atoms] : n \in 0..MaxAtoms}}

\* the commands the specification gives as examples, and their neighbours
Examples ==
    {Cat(<<s_ls, s_sp, s_dash, s_la>>),
     Cat(<<s_sudo, s_sp, s_apt, s_sp, s_update>>),
     Cat(<<s_rm, s_sp, s_no_preserve_root, s_sp, s_slash>>),
     Cat(<<s_sudo, s_sp, s_rm, s_sp, s_dash, s_rf, s_sp, s_no_preserve_root, s_sp, s_slash>>),
     Cat(<<s_rm, s_sp, s_dash, s_rf, s_sp, s_no_preserve_root, s_sp, s_slash>>),
     Cat(<<s_grep, s_sp, s_rm, s_sp, s_no_preserve_root>>),
     Cat(<<s_rm, s_sp, s_dash, s_rf, s_sp, s_build, s_slash>>),
     Cat(<<s_rm, s_sp, s_recursive, s_sp, s_build>>),
     Cat(<<s_rm, s_sp, s_build, s_sp, s_dash, s_rf>>),
     Cat(<<s_git, s_sp, s_push, s_sp, s_force>>),
     Cat(<<s_cp, s_sp, s_recursive, s_sp, s_a, s_sp, s_b>>),
     Cat(<<s_bfs, s_sp, s_slash>>),
     Cat(<<s_sudo, s_sp, s_bfs>>),
     Cat(<<s_ls, s_sp, s_calling>>),
     s_calling,
     s_ls}

Commands == AtomCommands \cup Examples

ShortCommands == {<<>>, s_ls, s_sudo, s_grep, s_force, s_ll}

\* SHELL_ALIASES: unset, empty, or "ll,la"
AliasSettings ==
    {[set |-> FALSE, value |-> <<>>], [set |-> TRUE, value |-> <<>>],
     [set |-> TRUE, value |-> s_ll_la]}

PathTexts ==
    [abs : BOOLEAN, parts : UNION {[1..n -> Components] : n \in 0..MaxDepth}]

\* CLAUDE_PROJECT_DIR: unset, "", /proj, /lnk, proj, /proj/sub, /
ProjectDirSettings ==
    {[set |-> FALSE, value |-> [abs |-> TRUE, parts |-> <<>>]],
     [set |-> TRUE, value |-> [abs |-> FALSE, parts |-> <<>>]],
     [set |-> TRUE, value |-> [abs |-> TRUE, parts |-> <<"proj">>]],
     [set |-> TRUE, value |-> [abs |-> TRUE, parts |-> <<"lnk">>]],
     [set |-> TRUE, value |-> [abs |-> FALSE, parts |-> <<"proj">>]],
     [set |-> TRUE, value |-> [abs |-> TRUE, parts |-> <<"proj", "sub">>]],
     [set |-> TRUE, value |-> [abs |-> TRUE, parts |-> <<>>]]}

\* the directories the process may be started in
WorkingDirs == {<<>>, <<"proj">>, <<"proj", "sub">>, <<"sub">>}

proj == [abs |-> TRUE, parts |-> <<"proj">>]

\* the decoded document: a Bash call of command c from directory d
Invocation(c, d) ==
    [kind |-> "object", tool_name |-> "Bash", tool_input |-> "object",
     has_command |-> TRUE, command |-> c, has_cwd |-> TRUE, cwd |-> d,
     hook_event_name |-> "PreToolUse"]

\* what is not JSON, and JSON that is not an object
NoObject(kind) ==
    [kind |-> kind, tool_name |-> "None", tool_input |-> "absent",
     has_command |-> FALSE, command |-> <<>>, has_cwd |-> FALSE, cwd |-> proj,
     hook_event_name |-> "None"]

\* objects with each key present or not; "None" stands for an absent key,
\* tool_input "null" for any tool_input that is not an object
Objects ==
    {o \in [kind : {"object"}, tool_name : {"Bash", "Write", "None"},
            tool_input : {"absent", "null", "object"},
            has_command : BOOLEAN, command : ShortCommands,
            has_cwd : BOOLEAN, cwd : {proj, [abs |-> TRUE, parts |-> <<"sub">>]},
            hook_event_name : {"PreToolUse", "None"}] :
        /\ o.tool_input # "object" => ~o.has_command
        /\ ~o.has_command => o.command = <<>>
        /\ ~o.has_cwd => o.cwd = proj}

\* any command, in a well-formed call from the project root
InitRules ==
    /\ stdin \in {Invocation(c, proj) : c \in Commands}
    /\ environ \in [SHELL_ALIASES : AliasSettings,
                    CLAUDE_PROJECT_DIR : {[set |-> TRUE, value |-> proj]}]
    /\ getcwd = <<"proj">>

\* any shape of document
InitShapes ==
    /\ stdin \in {NoObject("malformed"), NoObject("array")} \cup Objects
    /\ environ \in [SHELL_ALIASES : AliasSettings,
                    CLAUDE_PROJECT_DIR : {[set |-> TRUE, value |-> proj]}]
    /\ getcwd = <<"proj">>

\* any working directory and project root
InitPaths ==
    /\ stdin \in {Invocation(c, d) : c \in {s_ls, s_sudo}, d \in PathTexts}
    /\ environ \in [SHELL_ALIASES : {[set |-> TRUE, value |-> s_ll_la]},
                    CLAUDE_PROJECT_DIR : ProjectDirSettings]
    /\ getcwd \in WorkingDirs

Init ==
    /\ (InitRules \/ InitShapes \/ InitPaths)
    /\ pc = "load_json_input"
    /\ command = <<>>
    /\ i = 0
    /\ result = PyNone
    /\ stdout = <<>>
    /\ stderr = ""
    /\ exit_status = -1

----------------------------------------------------------------------------
(* The steps of main().                                                    *)

\* print_decision: one line, the document's JSON
print_decision(d) == stdout' = Append(stdout, json_dumps(d))

\* stop(reason): the stop document, then sys.exit(1)
stop(reason) ==
    /\ print_decision(PyDict(<< <<"continue", PyBool(FALSE)>>,
                                <<"stopReason", PyStr(reason)>> >>))
    /\ exit_status' = 1
    /\ pc' = "exited"
    /\ UNCHANGED <<command, i, result, stderr>>

\* an exception nothing catches: the traceback on stderr, exit status 1
raise(exception) ==
    /\ stderr' = exception
    /\ exit_status' = 1
    /\ pc' = "exited"
    /\ UNCHANGED <<command, i, result, stdout>>

load_json_input ==
    /\ pc = "load_json_input"
    /\ IF stdin.kind = "malformed"
       THEN stop(<<"Error: Invalid JSON input for tool call: {e}">>)
       ELSE /\ pc' = "get_command"
            /\ UNCHANGED <<command, i, result, stdout, stderr, exit_status>>
    /\ UNCHANGED <<stdin, environ, getcwd>>

get_command ==
    /\ pc = "get_command"
    /\ IF stdin.kind # "object" \/ stdin.tool_input = "null"
       THEN raise("AttributeError")
       ELSE IF \/ stdin.tool_name # "Bash"
               \/ ~(stdin.tool_input = "object" /\ stdin.has_command)
               \/ stdin.command = <<>>
       THEN IF stdin.hook_event_name = "None"
            THEN raise("KeyError")
            ELSE stop(<<"Command validator hook is configured incorrectly. Hook Event: {} Tool name: {}",
                        stdin.hook_event_name, stdin.tool_name>>)
       ELSE IF ~stdin.has_cwd
       THEN raise("KeyError")
       ELSE LET cwd == resolve(stdin.cwd)
            IN IF ~is_relative_to(cwd, project_root)
               THEN stop(<<"Current working directory {cwd} is outside of project root {project_root}",
                           cwd, project_root>>)
               ELSE /\ command' = stdin.command
                    /\ pc' = "validate_command"
                    /\ UNCHANGED <<i, result, stdout, stderr, exit_status>>
    /\ UNCHANGED <<stdin, environ, getcwd>>

\* the loop without its return: a later match replaces an earlier one
validate_command_for_last_match ==
    /\ pc = "validate_command"
    /\ i < Len(VALIDATION_RULES)
    /\ i' = i + 1
    /\ result' = IF re_search(VALIDATION_RULES[i+1].pattern, command)
                 THEN VALIDATION_RULES[i+1].decision ELSE result
    /\ pc' = IF i + 1 = Len(VALIDATION_RULES) /\ Truthy(result')
             THEN "print_decision" ELSE pc
    /\ UNCHANGED <<stdin, environ, getcwd, command, stdout, stderr, exit_status>>

\* one turn of the loop: the next rule is consulted
validate_command_for ==
    /\ pc = "validate_command"
    /\ i < Len(VALIDATION_RULES)
    /\ i' = i + 1
    /\ IF re_search(VALIDATION_RULES[i+1].pattern, command)
       THEN /\ result' = VALIDATION_RULES[i+1].decision
            /\ pc' = "print_decision"
       ELSE UNCHANGED <<result, pc>>
    /\ UNCHANGED <<stdin, environ, getcwd, command, stdout, stderr, exit_status>>

\* the loop's else: every rule was consulted and none matched
validate_command_else ==
    /\ pc = "validate_command"
    /\ i = Len(VALIDATION_RULES)
    /\ result' = PyNone
    /\ pc' = "print_decision"
    /\ UNCHANGED <<stdin, environ, getcwd, command, i, stdout, stderr, exit_status>>

\* main's last statement, then the interpreter exits with status 0
main_print_decision ==
    /\ pc = "print_decision"
    /\ IF Truthy(result) THEN print_decision(result) ELSE UNCHANGED stdout
    /\ exit_status' = 0
    /\ pc' = "exited"
    /\ UNCHANGED <<stdin, environ, getcwd, command, i, result, stderr>>

Next ==
    \/ load_json_input
    \/ get_command
    \/ validate_command_for
    \/ validate_command_else
    \/ main_print_decision

Spec == Init /\ [][Next]_vars

----------------------------------------------------------------------------
(* What the properties speak of.                                           *)

\* the run is over
Done == pc = "exited"

\* main ran to its end: validate_command returned
Returned == pc = "exited" /\ exit_status = 0

\* a Bash call with a non-empty command and a working directory
ValidCall ==
    /\ stdin.kind = "object"
    /\ stdin.tool_name = "Bash"
    /\ stdin.tool_input = "object"
    /\ stdin.has_command
    /\ stdin.command # <<>>
    /\ stdin.has_cwd

\* p is root or lies below it
Descends(p, root) == \E n \in 0..Len(p) : SubSeq(p, 1, n) = root

\* lit is a substring of s
Contains(s, lit) ==
    \E k \in 0..(Len(s) - Len(lit)) : SubSeq(s, k + 1, k + Len(lit)) = lit

\* lit stands in s after its first k characters
At(s, k, lit) == k + Len(lit) <= Len(s) /\ SubSeq(s, k + 1, k + Len(lit)) = lit

\* w, a text of word characters, is a whole word of s: it stands in s with
\* no word character before it and none after it
HasWord(s, w) ==
    \E k \in 0..(Len(s) - Len(w)) :
        /\ At(s, k, w)
        /\ k = 0 \/ s[k] \notin WordChars
        /\ k + Len(w) = Len(s) \/ s[k + Len(w) + 1] \notin WordChars

\* rm begins a word of s after its first a characters
RmAt(s, a) == At(s, a, s_rm) /\ (a = 0 \/ s[a] \notin WordChars)

\* rm begins a word and --no-preserve-root follows it on the same line
RmThenNoPreserveRoot(s) ==
    \E a \in 0..Len(s) :
        /\ RmAt(s, a)
        /\ \E b \in (a + 2)..Len(s) :
              /\ At(s, b, s_no_preserve_root)
              /\ \A n \in (a + 3)..b : s[n] # "\n"

\* rm occurs and --no-preserve-root occurs after it
RmFollowedByNoPreserveRoot(s) ==
    \E a \in 0..Len(s) :
        /\ At(s, a, s_rm)
        /\ \E b \in (a + 2)..Len(s) : At(s, b, s_no_preserve_root)

\* rm begins a word and, after optional white space, a flag of r, R and f,
\* --recursive or --force follows
RmWithFlag(s) ==
    \E a \in 0..Len(s) :
        /\ RmAt(s, a)
        /\ \E b \in (a + 2)..Len(s) :
              /\ \A n \in (a + 3)..b : s[n] \in SpaceChars
              /\ \/ (b + 2 <= Len(s) /\ s[b+1] = "-" /\ s[b+2] \in {"r", "R", "f"})
                 \/ At(s, b, s_recursive)
                 \/ At(s, b, s_force)

\* d[k] and k in d, for a Python dict
HasKey(d, k) == \E n \in DOMAIN d[2] : d[2][n][1] = k
Item(d, k) == d[2][CHOOSE n \in DOMAIN d[2] : d[2][n][1] = k][2]

\* the members of a JSON object
JKeys(doc) == {doc[2][n][1] : n \in DOMAIN doc[2]}
JGet(doc, k) == doc[2][CHOOSE n \in DOMAIN doc[2] : doc[2][n][1] = k][2]

\* what validate_command returned: <<permissionDecision, reason>>, the reason
\* "" when the decision has none, or <<"absent", "">> for None
Outcome ==
    IF result[1] = "None" THEN <<"absent", "">>
    ELSE LET out == Item(result, "hookSpecificOutput")
         IN <<Item(out, "permissionDecision")[2],
              IF HasKey(out, "permissionDecisionReason")
              THEN Item(out, "permissionDecisionReason")[2] ELSE "">>

\* rule k matches the command
Matches(k) == re_search(VALIDATION_RULES[k].pattern, command)

\* the rules that match the command
Matching == {k \in DOMAIN VALIDATION_RULES : Matches(k)}

IsStopDocument(doc) ==
    /\ doc[1] = "object"
    /\ Len(doc[2]) = 2
    /\ JKeys(doc) = {"continue", "stopReason"}
    /\ JGet(doc, "continue") = <<"false">>
    /\ JGet(doc, "stopReason")[1] = "string"

IsDecisionDocument(doc) ==
    /\ doc[1] = "object"
    /\ "hookSpecificOutput" \in JKeys(doc)

AliasesUnsetOrEmpty == ~environ.SHELL_ALIASES.set \/ environ.SHELL_ALIASES.value = <<>>

\* what the earlier rules give a command that has sudo as a word
BeforeSudo(otherwise) ==
    IF HasWord(command, s_grep) THEN <<"deny", grep_reason>>
    ELSE IF HasWord(command, s_find) \/ HasWord(command, s_bfs) THEN <<"deny", find_reason>>
    ELSE otherwise

----------------------------------------------------------------------------
(* The properties.                                                         *)

\* C1: with SHELL_ALIASES unset or empty, a valid Bash call from inside the
\* project root whose command has none of the policy tokens matches no
\* rule: validate_command returns None, nothing is printed, exit status 0.
C1_NoPolicyTokenIsAllowed ==
    (/\ Done
     /\ ValidCall
     /\ Descends(resolve(stdin.cwd), project_root)
     /\ AliasesUnsetOrEmpty
     /\ \A t \in {s_grep, s_find, s_bfs, s_sudo, s_rm, s_recursive, s_force, s_alias} :
            ~Contains(stdin.command, t))
    => (Outcome[1] = "absent" /\ stdout = <<>> /\ exit_status = 0)

\* C2, as claimed: every command in which rm is followed by
\* --no-preserve-root is denied, never asked about and never let through.
C2_NoPreserveRootAlwaysDenied ==
    (Returned /\ RmFollowedByNoPreserveRoot(command)) => Outcome[1] = "deny"

\* C2, amended: a command in which rm begins a word and is followed on the
\* same line by --no-preserve-root gets the decision of the first of the
\* grep, find/bfs and sudo rules that matches it, and is denied (without a
\* reason) when none of them does, whether or not the later
\* recursive/forced-deletion rule matches too.
C2_NoPreserveRootDeniedUnlessEarlier ==
    (Returned /\ RmThenNoPreserveRoot(command)) =>
        Outcome = BeforeSudo(IF HasWord(command, s_sudo)
                             THEN <<"ask", "">> ELSE <<"deny", "">>)

C2_Witness ==
    /\ Returned
    /\ RmThenNoPreserveRoot(command)
    /\ RmWithFlag(command)
    /\ Matches(5)
    /\ Outcome = <<"deny", "">>
    /\ i = 4

\* C3: a command that has sudo as a whole word gets `ask`, unless the grep
\* rule or the find/bfs rule matches it, whose decision it then gets; the
\* rules after the sudo rule never change this.
C3_SudoAsksUnlessEarlier ==
    (Returned /\ HasWord(command, s_sudo)) => Outcome = BeforeSudo(<<"ask", "">>)

C3_Witness ==
    /\ Returned
    /\ HasWord(command, s_sudo)
    /\ RmThenNoPreserveRoot(command)
    /\ \A k \in {4, 5, 6} : Matches(k)
    /\ Outcome = <<"ask", "">>

\* C4: validate_command returns the decision of the lowest-indexed rule
\* whose pattern is found in the command, having consulted no later rule,
\* and None exactly when no pattern is found; the inputs are as they were.
C4_FirstMatchWins ==
    Returned =>
        LET M == Matching
        IN /\ command = stdin.command
           /\ IF M = {}
              THEN result = PyNone /\ i = Len(VALIDATION_RULES)
              ELSE LET first == CHOOSE k \in M : \A m \in M : k <= m
                   IN /\ result = VALIDATION_RULES[first].decision
                      /\ i = first
           /\ (result = PyNone <=> M = {})

C4_Witness ==
    /\ Returned
    /\ Cardinality(Matching) >= 3
    /\ 1 \notin Matching
    /\ result = VALIDATION_RULES[2].decision

\* C5: with SHELL_ALIASES = "ll,la", a command that has ll or la as a whole
\* word and matches no earlier rule is denied with the alias reason, and a
\* command that has ll only inside a longer word and matches no other rule
\* is not denied: validate_command returns None.
C5_AliasIsAWholeWord ==
    (/\ Returned
     /\ environ.SHELL_ALIASES = [set |-> TRUE, value |-> s_ll_la]
     /\ \A k \in 1..5 : ~Matches(k)) =>
        /\ (HasWord(command, s_ll) \/ HasWord(command, s_la))
              => Outcome = <<"deny", alias_reason>>
        /\ (/\ Contains(command, s_ll)
            /\ ~HasWord(command, s_ll)
            /\ ~HasWord(command, s_la)
            /\ ~HasWord(command, s_alias)) => (Outcome[1] = "absent" /\ stdout = <<>>)

C5_Witness ==
    /\ Returned
    /\ environ.SHELL_ALIASES = [set |-> TRUE, value |-> s_ll_la]
    /\ Contains(command, s_ll)
    /\ ~HasWord(command, s_ll)
    /\ Outcome[1] = "absent"

\* C6: for an input object whose tool_name is not Bash, or whose
\* tool_input has no command or an empty one, the process prints the stop
\* document and exits with status 1, and no rule is consulted.
C6_WrongToolStops ==
    (/\ Done
     /\ stdin.kind = "object"
     /\ stdin.tool_input # "null"
     /\ \/ stdin.tool_name # "Bash"
        \/ ~stdin.has_command
        \/ stdin.command = <<>>) =>
        /\ Len(stdout) = 1
        /\ IsStopDocument(stdout[1])
        /\ exit_status = 1
        /\ i = 0

\* C7: for a valid Bash call with a non-empty command, if the resolved cwd
\* is neither the resolved project root nor below it, the process prints a
\* stop document whose reason names both and exits with status 1, no rule
\* consulted; otherwise the command goes on to the rules.
C7_ProjectBoundary ==
    (Done /\ ValidCall) =>
        IF ~Descends(resolve(stdin.cwd), project_root)
        THEN /\ Len(stdout) = 1
             /\ IsStopDocument(stdout[1])
             /\ JGet(stdout[1], "stopReason")[2][2] = resolve(stdin.cwd)
             /\ JGet(stdout[1], "stopReason")[2][3] = project_root
             /\ exit_status = 1
             /\ i = 0
        ELSE /\ command = stdin.command
             /\ i >= 1
             /\ exit_status = 0

\* the working directory is /proj/lnk, which reads as inside /proj and is a
\* link to /sub
C7_Witness ==
    /\ Done
    /\ ValidCall
    /\ stdin.cwd = [abs |-> TRUE, parts |-> <<"proj", "lnk">>]
    /\ project_root = <<"proj">>
    /\ exit_status = 1
    /\ Len(stdout) = 1

\* C8: whatever the input, the run ends with status 0 or 1 and at most one
\* document: status 1 exactly when the one document is a stop document,
\* status 0 exactly when it is a decision document or nothing was printed.
C8_StatusMatchesOutput ==
    Done =>
        /\ exit_status \in {0, 1}
        /\ Len(stdout) <= 1
        /\ exit_status = 1 <=> (Len(stdout) = 1 /\ IsStopDocument(stdout[1]))
        /\ exit_status = 0 <=>
              (stdout = <<>> \/ (Len(stdout) = 1 /\ IsDecisionDocument(stdout[1])))

\* C9: a decision document has the one key hookSpecificOutput, whose value
\* has hookEventName "PreToolUse", permissionDecision "deny" or "ask", and
\* permissionDecisionReason exactly for the rules configured with a reason
\* (grep, find/bfs, alias) and nothing else; it is the document built for
\* the matched rule.
C9_DecisionDocument ==
    \A n \in DOMAIN stdout :
        exit_status # 1 =>
            LET doc == stdout[n]
                out == JGet(doc, "hookSpecificOutput")
            IN /\ doc[1] = "object"
               /\ JKeys(doc) = {"hookSpecificOutput"}
               /\ Len(doc[2]) = 1
               /\ out[1] = "object"
               /\ Len(out[2]) = Cardinality(JKeys(out))
               /\ JKeys(out) = {"hookEventName", "permissionDecision"} \cup
                     (IF i \in {1, 2, 6} THEN {"permissionDecisionReason"} ELSE {})
               /\ JGet(out, "hookEventName") = <<"string", "PreToolUse">>
               /\ JGet(out, "permissionDecision") \in
                     {<<"string", "deny">>, <<"string", "ask">>}
               /\ i \in {1, 2, 6} =>
                     JGet(out, "permissionDecisionReason") \in
                        {<<"string", grep_reason>>, <<"string", find_reason>>,
                         <<"string", alias_reason>>}
               /\ doc = json_dumps(VALIDATION_RULES[i].decision)

C9_Witness ==
    /\ Done
    /\ i = 3
    /\ Len(stdout) = 1
    /\ IsDecisionDocument(stdout[1])
    /\ JKeys(JGet(stdout[1], "hookSpecificOutput")) = {"hookEventName", "permissionDecision"}

\* C10: among the commands that match no earlier rule, one that invokes rm
\* with a recursive or force flag is asked about, and one that does not
\* contain rm at all does not match the recursive/forced-deletion rule.
C10_DeletionRuleIsAboutRm ==
    (Returned /\ \A k \in 1..4 : ~Matches(k)) =>
        /\ RmWithFlag(command) => (Outcome[1] = "ask" /\ i = 5)
        /\ ~Contains(command, s_rm) => (Outcome[1] # "ask" /\ i # 5)

=============================================================================
